---- MODULE Spec2Model ----
(***************************************************************************)
(* State-machine model of the SigMOS audio quality evaluation service      *)
(* (src/sigmos_api.py): process start-up, the process-wide engine handle,  *)
(* the shared upload directory, and the request handlers /, /health,       *)
(* /info, /evaluate and /evaluate_path run by concurrent worker threads    *)
(* (app.run(threaded=True)).                                               *)
(*                                                                         *)
(* Strings whose characters matter (file names, paths) are tuples of       *)
(* one-character strings, so that rsplit, lower and secure_filename are    *)
(* computed character by character.                                        *)
(***************************************************************************)
EXTENDS Integers, Sequences, FiniteSets, TLC

(***************************************************************************)
(* Bounds of the model.                                                    *)
(***************************************************************************)
\* total number of requests accepted by the server in one behaviour
MaxRequests == 2

\* the worker threads that serve requests concurrently
Workers == {"t1", "t2"}

(***************************************************************************)
(* Strings as character tuples.                                            *)
(***************************************************************************)
RECURSIVE lower(_)
LowerChar(c) ==
    CASE c = "W" -> "w"
      [] c = "A" -> "a"
      [] c = "V" -> "v"
      [] c = "M" -> "m"
      [] c = "P" -> "p"
      [] OTHER -> c

\* str.lower()
lower(s) == IF s = <<>> THEN <<>> ELSE <<LowerChar(Head(s))>> \o lower(Tail(s))

\* '.' in filename
HasDot(s) == \E i \in 1..Len(s) : s[i] = "."

\* position of the last '.', 0 when there is none
LastDot(s) ==
    IF HasDot(s) THEN CHOOSE i \in 1..Len(s) :
                          s[i] = "." /\ \A j \in (i+1)..Len(s) : s[j] # "."
                 ELSE 0

\* filename.rsplit('.', 1): one piece when there is no dot, else two
rsplit(s) ==
    IF HasDot(s) THEN << SubSeq(s, 1, LastDot(s) - 1), SubSeq(s, LastDot(s) + 1, Len(s)) >>
                 ELSE << s >>

ALLOWED_EXTENSIONS ==
    { <<"w","a","v">>, <<"m","p","3">>, <<"f","l","a","c">>, <<"m","4","a">> }

\* variant: the extension is taken as the last piece without the
\* "'.' in filename" test, so a bare "wav" is accepted
allowed_file_no_dot_test(filename) ==
    lower(rsplit(filename)[Len(rsplit(filename))]) \in ALLOWED_EXTENSIONS

allowed_file(filename) ==
    HasDot(filename) /\ lower(rsplit(filename)[2]) \in ALLOWED_EXTENSIONS

RECURSIVE StripLeft(_)
StripLeft(s) ==
    IF s # <<>> /\ Head(s) \in {".", "_"} THEN StripLeft(Tail(s)) ELSE s

RECURSIVE StripRight(_)
StripRight(s) ==
    IF s # <<>> /\ s[Len(s)] \in {".", "_"} THEN StripRight(SubSeq(s, 1, Len(s) - 1)) ELSE s

\* werkzeug's secure_filename on names made of ASCII letters, digits and dots:
\* such characters are kept, and leading and trailing '.' and '_' are stripped
secure_filename(s) == StripRight(StripLeft(s))

(***************************************************************************)
(* Request inputs.                                                         *)
(***************************************************************************)
\* file names a client may declare for the uploaded part
Filenames ==
    { <<>>,
      <<"a",".","w","a","v">>,
      <<".","M","P","3">>,
      <<"a",".","t","x","t">>,
      <<"w","a","v">>,
      <<"a",".","w","a","v",".","t","x","t">> }

\* contents of an uploaded or server-local file: two decodable recordings and
\* one that soundfile cannot decode
Payloads == {"audioA", "audioB", "corrupt"}

\* the uploads a client sends: every file name the validator accepts with
\* every payload, every other file name with one payload
UploadInputs ==
    { u \in Filenames \X Payloads : allowed_file(u[1]) \/ u[2] = "audioA" }

\* what a failed, interrupted file.save() leaves on disk
Truncated == "truncated"

Decodable(content) == content \in {"audioA", "audioB"}

UPLOAD_FOLDER == <<"u","p","l","o","a","d","s">>

\* os.path.join(dir, name)
path_join(dir, name) == dir \o <<"/">> \o name

DataDir == <<"d","a","t","a">>

GoodDataPath == path_join(DataDir, <<"a",".","w","a","v">>)
BadDataPath  == path_join(DataDir, <<"c",".","w","a","v">>)
MissingDataPath == path_join(DataDir, <<"n","o",".","w","a","v">>)

NoPath == <<>>

\* the values uuid.uuid4() hands out, in the order it hands them out; a
\* collision of two random 122-bit values is not modelled
UuidPool == << <<"u","1">>, <<"u","2">>, <<"u","3">>, <<"u","4">>, <<"u","5">>, <<"u","6">> >>

(***************************************************************************)
(* State.                                                                  *)
(***************************************************************************)
VARIABLES
    launch,            \* "main": run as a script; "wsgi": imported and served
    modelFileExists,   \* whether the .onnx model file is on disk
    phase,             \* "boot", "initialised", "serving" or "exited"
    sigmos_estimator,  \* the process-wide engine handle: "None" or "SigMOS"
    model_dir,         \* the process-wide model directory: "None" or "sigmos"
    fs,                \* the filesystem: path -> content, for the files present
    uuids,             \* number of values uuid.uuid4() has handed out
    accepted,          \* number of requests accepted so far
    req,               \* per worker thread: the request it is serving
    calc               \* one run of evaluate_audio_file's computation on a
                       \* decoded recording, followed line by line

vars == << launch, modelFileExists, phase, sigmos_estimator, model_dir,
           fs, uuids, accepted, req, calc >>

globals == << sigmos_estimator, model_dir >>

(***************************************************************************)
(* Results of evaluate_audio_file and response bodies: the keys the        *)
(* dictionary holds, the value of "success" (FALSE when absent), the cause *)
(* named by the error message, and the recording the scores were computed  *)
(* from.                                                                   *)
(***************************************************************************)
NoBody == [keys |-> {}, success |-> FALSE, cause |-> "none", audio |-> "none"]

\* {"error": f"音频文件不存在: ..."}
MissingResult ==
    [keys |-> {"error"}, success |-> FALSE, cause |-> "missing", audio |-> "none"]

\* {"success": False, "error": str(e), "traceback": ...}
ExceptionResult(cause) ==
    [keys |-> {"success", "error", "traceback"}, success |-> FALSE,
     cause |-> cause, audio |-> "none"]

\* the OrderedDict built from file_info and the engine's scores
evaluation_result(audio) ==
    [keys |-> {"success", "timestamp", "file_info", "mos_scores", "raw_scores"},
     success |-> TRUE, cause |-> "none", audio |-> audio]

\* {"success": False, "error": ...} as built by the handlers themselves
ErrorBody(cause) ==
    [keys |-> {"success", "error"}, success |-> FALSE, cause |-> cause, audio |-> "none"]

\* {"status": ..., "message": ...} and the static descriptions
InfoBody(what) ==
    [keys |-> {"status", "message"}, success |-> FALSE, cause |-> what, audio |-> "none"]

\* result.get("success", False)
get_success(result) == "success" \in result.keys /\ result.success

NoResponse == [status |-> 0, body |-> NoBody]

Response(status, body) == [status |-> status, body |-> body]

\* no computation is being followed
NoCalc == [stage |-> "none"]

\* a worker thread that serves no request
Idle ==
    [pc |-> "idle", endpoint |-> "none", has_file |-> FALSE, filename |-> <<>>,
     payload |-> "none", file_path |-> NoPath, audio_data |-> "none",
     serializable |-> TRUE, result |-> NoBody, resp |-> NoResponse,
     saves |-> 0, reads |-> 0, runs |-> 0]

\* the server hands a new request to a thread that serves none; a thread
\* that has sent its response keeps showing it until it takes the next request
CanAccept(w) ==
    phase = "serving" /\ accepted < MaxRequests /\ req[w].pc \in {"idle", "done"}

(***************************************************************************)
(* Start-up.                                                               *)
(***************************************************************************)
Init ==
    /\ launch \in {"main", "wsgi"}
    /\ modelFileExists \in BOOLEAN
    /\ phase = "boot"
    /\ sigmos_estimator = "None"
    /\ model_dir = "None"
    /\ fs = (GoodDataPath :> "audioA") @@ (BadDataPath :> "corrupt")
    /\ uuids = 0
    /\ accepted = 0
    /\ req = [w \in Workers |-> Idle]
    /\ calc = NoCalc

\* init_sigmos_model(): TRUE with the handle set, or FALSE when the model file
\* is missing or the SigMOS constructor raises; model_dir is assigned first
InitModel(ctor_raises) ==
    /\ launch = "main" /\ phase = "boot"
    /\ model_dir' = "sigmos"
    /\ sigmos_estimator' = IF modelFileExists /\ ~ctor_raises THEN "SigMOS" ELSE "None"
    /\ phase' = "initialised"
    /\ UNCHANGED << calc, launch, modelFileExists, fs, uuids, accepted, req >>

\* variant: the server is started whatever init_sigmos_model returned
MainStartsServer_unchecked(ok) == TRUE

\* __main__: "if not init_sigmos_model(): sys.exit(1)"
MainStartsServer(ok) == ok

\* __main__ after init_sigmos_model returned: sys.exit(1) or app.run(...)
MainContinue ==
    /\ launch = "main" /\ phase = "initialised"
    /\ phase' = IF MainStartsServer(sigmos_estimator # "None") THEN "serving" ELSE "exited"
    /\ UNCHANGED << calc, launch, modelFileExists, globals, fs, uuids, accepted, req >>

\* the module is imported and app is served by a WSGI server: the __main__
\* block does not run and init_sigmos_model is never called
WsgiServe ==
    /\ launch = "wsgi" /\ phase = "boot"
    /\ phase' = "serving"
    /\ UNCHANGED << calc, launch, modelFileExists, globals, fs, uuids, accepted, req >>

(***************************************************************************)
(* GET /, GET /health, GET /info.                                          *)
(***************************************************************************)
Reply(w, endpoint, response) ==
    /\ req' = [req EXCEPT ![w] = [Idle EXCEPT !.pc = "done", !.endpoint = endpoint,
                                              !.resp = response]]
    /\ accepted' = accepted + 1

index(w) ==
    /\ CanAccept(w)
    /\ Reply(w, "index", Response(200, InfoBody("service")))
    /\ UNCHANGED << calc, launch, modelFileExists, phase, globals, fs, uuids >>

\* variant: the test on the handle is inverted
health_response_inverted(estimator) ==
    IF estimator # "None" THEN Response(503, InfoBody("unhealthy"))
                          ELSE Response(200, InfoBody("healthy"))

health_response(estimator) ==
    IF estimator = "None" THEN Response(503, InfoBody("unhealthy"))
                          ELSE Response(200, InfoBody("healthy"))

health_check(w) ==
    /\ CanAccept(w)
    /\ Reply(w, "health", health_response(sigmos_estimator))
    /\ UNCHANGED << calc, launch, modelFileExists, phase, globals, fs, uuids >>

service_info(w) ==
    /\ CanAccept(w)
    /\ Reply(w, "info", Response(200, InfoBody(model_dir)))
    /\ UNCHANGED << calc, launch, modelFileExists, phase, globals, fs, uuids >>

(***************************************************************************)
(* evaluate_audio_file, one step per access to shared state.               *)
(***************************************************************************)
\* variant: the path-mode handler cleans up like the upload handler
removes_file_always(endpoint) == TRUE

\* only evaluate_uploaded_file calls os.remove(file_path) on what it evaluated
removes_file(endpoint) == endpoint = "evaluate"

\* where the handler continues once evaluate_audio_file has returned
AfterEvaluation(endpoint) == IF removes_file(endpoint) THEN "remove" ELSE "respond"

\* "if not os.path.exists(audio_file_path): return {"error": ...}"
CheckExists(w) ==
    /\ req[w].pc = "exists"
    /\ IF req[w].file_path \in DOMAIN fs
         THEN req' = [req EXCEPT ![w].pc = "read"]
         ELSE req' = [req EXCEPT ![w].pc = AfterEvaluation(req[w].endpoint),
                                 ![w].result = MissingResult]
    /\ UNCHANGED << calc, launch, modelFileExists, phase, globals, fs, uuids, accepted >>

\* sf.read(audio_file_path) and the file_info / mono-conversion lines: it
\* raises when the file has gone or cannot be decoded
ReadAudio(w) ==
    /\ req[w].pc = "read"
    /\ LET p == req[w].file_path
           r == [req[w] EXCEPT !.reads = @ + 1]
       IN  req' = [req EXCEPT ![w] =
             IF p \notin DOMAIN fs
               THEN [r EXCEPT !.pc = AfterEvaluation(r.endpoint),
                              !.result = ExceptionResult("open_failed")]
             ELSE IF ~Decodable(fs[p])
               THEN [r EXCEPT !.pc = AfterEvaluation(r.endpoint),
                              !.result = ExceptionResult("decode_failed")]
               ELSE [r EXCEPT !.pc = "run", !.audio_data = fs[p]]]
    /\ UNCHANGED << calc, launch, modelFileExists, phase, globals, fs, uuids, accepted >>

\* what the engine does with one call of run(audio_data, sr=sample_rate)
EngineOutcomes == {"scores", "unserializable_scores", "raises"}

\* variant: a failed scoring call is attempted a second time
after_run_retry(result, runs) ==
    IF ~get_success(result) /\ runs < 2 THEN "run" ELSE "return"

\* evaluate_audio_file holds no loop: whatever line 95 did, the function
\* returns (the result, or the except clause's dictionary)
after_run(result, runs) == "return"

\* sigmos_estimator.run(...) and the construction of the result; with the
\* handle unset the call expression raises AttributeError
run_result(estimator, outcome, audio) ==
    IF estimator = "None" THEN ExceptionResult("no_engine")
    ELSE IF outcome = "raises" THEN ExceptionResult("scoring_failed")
    ELSE evaluation_result(audio)

\* variant: the handle is dropped when scoring fails
estimator_dropped_on_failure(estimator, result) ==
    IF get_success(result) THEN estimator ELSE "None"

\* evaluate_audio_file declares "global sigmos_estimator" and only reads it:
\* the handle after the call is the handle before it
estimator_after_run(estimator, result) == estimator

RunEngine(w, outcome) ==
    /\ req[w].pc = "run"
    /\ LET res == run_result(sigmos_estimator, outcome, req[w].audio_data)
           n   == req[w].runs + 1
       IN  /\ req' = [req EXCEPT ![w].runs = n,
                              ![w].result = res,
                              ![w].serializable =
                                  ~(get_success(res) /\ outcome = "unserializable_scores"),
                              ![w].pc = IF after_run(res, n) = "run" THEN "run"
                                        ELSE AfterEvaluation(req[w].endpoint)]
           /\ sigmos_estimator' = estimator_after_run(sigmos_estimator, res)
    /\ UNCHANGED << calc, launch, modelFileExists, phase, model_dir, fs, uuids, accepted >>

(***************************************************************************)
(* The handlers' last lines.                                               *)
(***************************************************************************)
\* variant: the result is returned without the 500
result_status_always_200(result) == 200

\* "if result.get("success", False): return jsonify(result)
\*  else: return jsonify(result), 500"
result_status(result) == IF get_success(result) THEN 200 ELSE 500

\* the response of the two evaluating handlers for a result; when jsonify
\* raises, /evaluate answers from its except clause and /evaluate_path from
\* the application's 500 error handler
result_response(endpoint, result, serializable) ==
    IF serializable THEN Response(result_status(result), result)
    ELSE IF endpoint = "evaluate" THEN Response(500, ErrorBody("handler_exception"))
    ELSE Response(500, ErrorBody("internal_error"))

Respond(w) ==
    /\ req[w].pc = "respond"
    /\ req' = [req EXCEPT ![w].pc = "done",
                          ![w].resp = result_response(req[w].endpoint, req[w].result,
                                                      req[w].serializable)]
    /\ UNCHANGED << calc, launch, modelFileExists, phase, globals, fs, uuids, accepted >>

\* a file taken out of the directory
remove(files, p) == [q \in DOMAIN files \ {p} |-> files[q]]

\* "try: os.remove(file_path) / except: pass": the file this thread wrote
\* into the upload directory is unlinked; when it is not there, os.remove
\* raises and the error is swallowed
RemoveTemp(w) ==
    /\ req[w].pc = "remove"
    /\ fs' = remove(fs, req[w].file_path)
    /\ req' = [req EXCEPT ![w].pc = "respond"]
    /\ UNCHANGED << calc, launch, modelFileExists, phase, globals, uuids, accepted >>

(***************************************************************************)
(* POST /evaluate.                                                         *)
(***************************************************************************)
\* the checks of evaluate_uploaded_file before its try block: the cause of
\* the 400 response, or "ok"
upload_validation(has_file, filename) ==
    IF ~has_file THEN "no_file"
    ELSE IF filename = <<>> THEN "no_filename"
    ELSE IF ~allowed_file(filename) THEN "bad_format"
    ELSE "ok"

\* the request arrives and is validated
evaluate_uploaded_file(w, has_file, filename, payload) ==
    /\ CanAccept(w)
    /\ accepted' = accepted + 1
    /\ LET r == [Idle EXCEPT !.endpoint = "evaluate", !.has_file = has_file,
                             !.filename = filename, !.payload = payload]
           v == upload_validation(has_file, filename)
       IN  req' = [req EXCEPT ![w] =
             IF v = "ok" THEN [r EXCEPT !.pc = "save"]
             ELSE [r EXCEPT !.pc = "done", !.resp = Response(400, ErrorBody(v))]]
    /\ UNCHANGED << calc, launch, modelFileExists, phase, globals, fs, uuids >>

\* variant: the sanitized name is used without the uuid prefix
unique_filename_no_uuid(uuid, filename) == filename

\* f"{uuid.uuid4()}_{filename}"
unique_filename(uuid, filename) == uuid \o <<"_">> \o filename

\* what file.save(file_path) does: it writes the whole payload, or raises
\* before the file is created, or raises after part of it was written
SaveOutcomes == {"saved", "raises_before_create", "raises_after_create"}

\* secure_filename, uuid4, os.path.join and file.save
SaveUpload(w, outcome) ==
    /\ req[w].pc = "save"
    /\ uuids < Len(UuidPool)
    /\ uuids' = uuids + 1
    /\ LET p == path_join(UPLOAD_FOLDER,
                          unique_filename(UuidPool[uuids + 1],
                                          secure_filename(req[w].filename)))
           r == [req[w] EXCEPT !.file_path = p, !.saves = @ + 1]
       IN  /\ fs' = CASE outcome = "saved" -> (p :> r.payload) @@ fs
                      [] outcome = "raises_after_create" -> (p :> Truncated) @@ fs
                      [] OTHER -> fs
           /\ req' = [req EXCEPT ![w] =
                 IF outcome = "saved" THEN [r EXCEPT !.pc = "exists"]
                 ELSE [r EXCEPT !.pc = "done",
                                !.resp = Response(500, ErrorBody("handler_exception"))]]
    /\ UNCHANGED << calc, launch, modelFileExists, phase, globals, accepted >>

(***************************************************************************)
(* POST /evaluate_path.                                                    *)
(***************************************************************************)
\* paths a client may name: server-local files, a path that does not exist,
\* and any file that is in the upload directory at that moment
PathInputs == {GoodDataPath, BadDataPath, MissingDataPath} \cup DOMAIN fs

\* the request arrives; "file_path" is looked up in the body and the handler
\* makes its own os.path.exists check
evaluate_file_path(w, has_param, file_path) ==
    /\ CanAccept(w)
    /\ accepted' = accepted + 1
    /\ LET r == [Idle EXCEPT !.endpoint = "evaluate_path", !.has_file = has_param,
                             !.file_path = file_path]
       IN  req' = [req EXCEPT ![w] =
             IF ~has_param
               THEN [r EXCEPT !.pc = "done", !.resp = Response(400, ErrorBody("no_param"))]
             ELSE IF file_path \notin DOMAIN fs
               THEN [r EXCEPT !.pc = "done", !.resp = Response(404, ErrorBody("missing"))]
             ELSE [r EXCEPT !.pc = "exists"]]
    /\ UNCHANGED << calc, launch, modelFileExists, phase, globals, fs, uuids >>

(***************************************************************************)
(* The specification.                                                      *)
(***************************************************************************)
Next ==
    \/ \E c \in BOOLEAN : InitModel(c)
    \/ MainContinue
    \/ WsgiServe
    \/ \E w \in Workers :
          \/ index(w)
          \/ health_check(w)
          \/ service_info(w)
          \/ evaluate_uploaded_file(w, FALSE, <<>>, "none")
          \/ \E u \in UploadInputs : evaluate_uploaded_file(w, TRUE, u[1], u[2])
          \/ \E o \in SaveOutcomes : SaveUpload(w, o)
          \/ evaluate_file_path(w, FALSE, NoPath)
          \/ \E p \in PathInputs : evaluate_file_path(w, TRUE, p)
          \/ CheckExists(w)
          \/ ReadAudio(w)
          \/ \E o \in EngineOutcomes : RunEngine(w, o)
          \/ RemoveTemp(w)
          \/ Respond(w)

Spec == Init /\ [][Next]_vars

(***************************************************************************)
(* The computation of evaluate_audio_file on a decoded recording (lines    *)
(* 76-129), followed line by line on a bounded set of recordings and of    *)
(* engine outputs.                                                         *)
(***************************************************************************)
\* most channels and most frames of a recording
MaxChannels == 2
MaxFrames == 2

\* sample values and sample rates of the recordings
Samples == {-1, 1}
SampleRates == {8000, 16000}

\* an audio file: its channel count, its frames (one sample per channel each)
\* and its sample rate
AudioFiles ==
    UNION { { [channels |-> c, frames |-> f, samplerate |-> r] :
                f \in [1..n -> [1..c -> Samples]], r \in SampleRates } :
            c \in 1..MaxChannels, n \in 0..MaxFrames }

\* soundfile.read(path): a 1-D array of frames for a one-channel file, a 2-D
\* array (frames x channels) otherwise, with the file's sample rate
sf_read(file) ==
    [audio_data |->
        IF file.channels = 1
          THEN [shape |-> << Len(file.frames) >>,
                data  |-> [i \in 1..Len(file.frames) |-> file.frames[i][1]]]
          ELSE [shape |-> << Len(file.frames), file.channels >>,
                data  |-> file.frames],
     sample_rate |-> file.samplerate]

\* len(audio_data): the length of the first axis
np_len(a) == a.shape[1]

\* variant: the last channel is taken instead of the first
last_channel(a) ==
    [shape |-> << a.shape[1] >>, data |-> [i \in 1..a.shape[1] |-> a.data[i][a.shape[2]]]]

\* audio_data[:, 0]
first_channel(a) ==
    [shape |-> << a.shape[1] >>, data |-> [i \in 1..a.shape[1] |-> a.data[i][1]]]

\* the names under which the engine returns its scores
EngineKeys ==
    {"MOS_COL", "MOS_DISC", "MOS_LOUD", "MOS_NOISE", "MOS_REVERB", "MOS_SIG", "MOS_OVRL"}

\* scores are fixed-point numbers counted in ten-thousandths: 31245 is 3.1245
ScoreValues == {31244, 31245, 31256}

\* what one call of the engine may return
EngineResults == [EngineKeys -> ScoreValues]

\* round(x, 3) on ten-thousandths: the nearest thousandth, a tie going to the
\* even one
round3(x) ==
    LET q == x \div 10
        r == x % 10
    IN  IF r < 5 THEN 10 * q
        ELSE IF r > 5 THEN 10 * (q + 1)
        ELSE IF q % 2 = 0 THEN 10 * q ELSE 10 * (q + 1)

\* variant: the noise entry is computed from the signal score
mos_scores_copied_key(result) ==
    << << <<"overall quality", "MOS_OVRL">>,   round3(result["MOS_OVRL"]) >>,
       << <<"signal quality", "MOS_SIG">>,     round3(result["MOS_SIG"]) >>,
       << <<"noise level", "MOS_NOISE">>,      round3(result["MOS_SIG"]) >>,
       << <<"loudness", "MOS_LOUD">>,          round3(result["MOS_LOUD"]) >>,
       << <<"coloration", "MOS_COL">>,         round3(result["MOS_COL"]) >>,
       << <<"discontinuity", "MOS_DISC">>,     round3(result["MOS_DISC"]) >>,
       << <<"reverberation", "MOS_REVERB">>,   round3(result["MOS_REVERB"]) >> >>

\* the OrderedDict mos_scores, as its (key, value) pairs in insertion order;
\* a key is the localized label and the engine's name joined by "_"
mos_scores(result) ==
    << << <<"overall quality", "MOS_OVRL">>,   round3(result["MOS_OVRL"]) >>,
       << <<"signal quality", "MOS_SIG">>,     round3(result["MOS_SIG"]) >>,
       << <<"noise level", "MOS_NOISE">>,      round3(result["MOS_NOISE"]) >>,
       << <<"loudness", "MOS_LOUD">>,          round3(result["MOS_LOUD"]) >>,
       << <<"coloration", "MOS_COL">>,         round3(result["MOS_COL"]) >>,
       << <<"discontinuity", "MOS_DISC">>,     round3(result["MOS_DISC"]) >>,
       << <<"reverberation", "MOS_REVERB">>,   round3(result["MOS_REVERB"]) >> >>

\* the OrderedDict raw_scores, as its (key, value) pairs in insertion order
raw_scores(result) ==
    << << "MOS_OVRL",   result["MOS_OVRL"] >>,
       << "MOS_SIG",    result["MOS_SIG"] >>,
       << "MOS_NOISE",  result["MOS_NOISE"] >>,
       << "MOS_LOUD",   result["MOS_LOUD"] >>,
       << "MOS_COL",    result["MOS_COL"] >>,
       << "MOS_DISC",   result["MOS_DISC"] >>,
       << "MOS_REVERB", result["MOS_REVERB"] >> >>

\* the recording and the engine output used while the other one varies
DefaultFile ==
    [channels |-> 1, frames |-> << <<1>> >>, samplerate |-> 16000]
DefaultResult == [k \in EngineKeys |-> 31244]

NoArray == [shape |-> <<0>>, data |-> <<>>]

\* the computation about to start on a recording, with what the engine will
\* return for it
CalcStart(file, result) ==
    [stage |-> "start", file |-> file, engine_result |-> result,
     audio_data |-> NoArray, sample_rate |-> 0,
     file_info |-> [file_size_samples |-> 0, sample_rate |-> 0,
                    converted_to_mono |-> FALSE],
     engine_in |-> [samples |-> NoArray, sr |-> 0],
     mos_scores |-> <<>>, raw_scores |-> <<>>]

PipelineInit ==
    /\ launch = "main"
    /\ modelFileExists = TRUE
    /\ phase = "boot"
    /\ sigmos_estimator = "None"
    /\ model_dir = "None"
    /\ fs = (GoodDataPath :> "audioA") @@ (BadDataPath :> "corrupt")
    /\ uuids = 0
    /\ accepted = 0
    /\ req = [w \in Workers |-> Idle]
    /\ calc \in { CalcStart(f, DefaultResult) : f \in AudioFiles }
                \cup { CalcStart(DefaultFile, r) : r \in EngineResults }

main_vars == << launch, modelFileExists, phase, sigmos_estimator, model_dir,
                fs, uuids, accepted, req >>

\* "audio_data, sample_rate = sf.read(audio_file_path)"
CalcRead ==
    /\ calc.stage = "start"
    /\ calc' = [calc EXCEPT !.stage = "read",
                            !.audio_data = sf_read(calc.file).audio_data,
                            !.sample_rate = sf_read(calc.file).sample_rate]
    /\ UNCHANGED main_vars

\* file_info, then "if len(audio_data.shape) > 1: audio_data = audio_data[:, 0]"
CalcFileInfo ==
    /\ calc.stage = "read"
    /\ LET stereo == Len(calc.audio_data.shape) > 1
       IN  calc' = [calc EXCEPT
             !.stage = "mono",
             !.file_info = [file_size_samples |-> np_len(calc.audio_data),
                            sample_rate |-> calc.sample_rate,
                            converted_to_mono |-> stereo],
             !.audio_data = IF stereo THEN first_channel(calc.audio_data)
                            ELSE calc.audio_data]
    /\ UNCHANGED main_vars

\* "result = sigmos_estimator.run(audio_data, sr=sample_rate)"
CalcRun ==
    /\ calc.stage = "mono"
    /\ calc' = [calc EXCEPT !.stage = "scored",
                            !.engine_in = [samples |-> calc.audio_data,
                                           sr |-> calc.sample_rate]]
    /\ UNCHANGED main_vars

\* mos_scores, raw_scores and evaluation_result
CalcBuild ==
    /\ calc.stage = "scored"
    /\ calc' = [calc EXCEPT !.stage = "built",
                            !.mos_scores = mos_scores(calc.engine_result),
                            !.raw_scores = raw_scores(calc.engine_result)]
    /\ UNCHANGED main_vars

PipelineNext == CalcRead \/ CalcFileInfo \/ CalcRun \/ CalcBuild

PipelineSpec == PipelineInit /\ [][PipelineNext]_vars

(***************************************************************************)
(* Vocabulary of the properties.                                           *)
(***************************************************************************)
Done(w) == req[w].pc = "done"

Upload(w) == req[w].endpoint = "evaluate"

PathMode(w) == req[w].endpoint = "evaluate_path"

\* the request got through validation and sf.read decoded its audio
Decoded(w) == req[w].audio_data # "none"

\* the body has the failure shape {success: false, error, [traceback]}
FailureShape(body) == {"success", "error"} \subseteq body.keys /\ ~body.success

\* file names whose extension, lower-cased, is none of wav, mp3, flac, m4a
\* (listed by hand, not computed with allowed_file)
DisallowedNames ==
    { <<"a",".","t","x","t">>, <<"w","a","v">>, <<"a",".","w","a","v",".","t","x","t">> }

(***************************************************************************)
(* C1.  For every POST /evaluate request, the temporary file it created is *)
(* absent from the upload directory when the response is returned, on      *)
(* every exit path.  Fails: when file.save raises after the file was       *)
(* created, the handler's except clause answers 500 without removing it.   *)
(***************************************************************************)
C1_TempFileAbsentAtResponse ==
    \A w \in Workers :
        Done(w) /\ Upload(w) => req[w].file_path \notin DOMAIN fs

(***************************************************************************)
(* C2.  Concurrent POST /evaluate requests use distinct temporary paths;   *)
(* from its save to its delete a request's file is on disk with that       *)
(* request's own payload (no other request overwrote or removed it), what  *)
(* it decodes is its own payload, and a 200 response is computed from its  *)
(* own payload.                                                            *)
(***************************************************************************)
C2_UploadsIsolated ==
    /\ \A v, w \in Workers :
          v # w /\ Upload(v) /\ Upload(w)
                /\ req[v].file_path # NoPath /\ req[w].file_path # NoPath
             => req[v].file_path # req[w].file_path
    /\ \A w \in Workers :
          Upload(w) =>
             /\ req[w].pc \in {"exists", "read", "run"} =>
                   /\ req[w].file_path \in DOMAIN fs
                   /\ fs[req[w].file_path] = req[w].payload
             /\ Decoded(w) => req[w].audio_data = req[w].payload
             /\ req[w].result.cause # "missing"
             /\ req[w].resp.status = 200 => req[w].resp.body.audio = req[w].payload

\* two uploads of different payloads under the same file name, both decoded
\* and both with their file still on disk
C2_Witness ==
    \E v, w \in Workers :
        /\ v # w /\ Upload(v) /\ Upload(w)
        /\ req[v].pc = "run" /\ req[w].pc = "run"
        /\ req[v].filename = req[w].filename
        /\ req[v].payload # req[w].payload

(***************************************************************************)
(* C3.  A POST /evaluate request with no 'file' part, an empty filename or *)
(* a filename whose lower-cased extension is not wav, mp3, flac or m4a is  *)
(* answered 400 with success=false; no temporary file was written for it   *)
(* and the engine was not invoked.                                         *)
(***************************************************************************)
C3_InvalidUploadRejected ==
    \A w \in Workers :
        Upload(w) /\ ( ~req[w].has_file \/ req[w].filename = <<>>
                       \/ req[w].filename \in DisallowedNames )
        => /\ Done(w)
           /\ req[w].resp.status = 400
           /\ FailureShape(req[w].resp.body)
           /\ req[w].saves = 0 /\ req[w].file_path = NoPath
           /\ req[w].reads = 0 /\ req[w].runs = 0

\* an upload named "wav" (no dot) was answered 400
C3_Witness ==
    \E w \in Workers :
        /\ Done(w) /\ Upload(w) /\ req[w].has_file
        /\ req[w].filename = <<"w","a","v">>
        /\ req[w].resp.status = 400

(***************************************************************************)
(* C4.  A POST /evaluate_path request whose file is found missing is       *)
(* answered 404, whether the handler's own check or the check inside       *)
(* evaluate_audio_file finds it missing.  Fails: evaluate_audio_file       *)
(* returns {"error": ...} and the handler answers 500.                     *)
(***************************************************************************)
C4_MissingFileIs404 ==
    \A w \in Workers :
        Done(w) /\ PathMode(w)
                /\ (req[w].result.cause = "missing" \/ req[w].resp.body.cause = "missing")
        => req[w].resp.status = 404

(***************************************************************************)
(* C5.  Every non-200 response of POST /evaluate and POST /evaluate_path   *)
(* carries success=false and an error message, and a 200 response carries  *)
(* success=true.  Fails: the dictionary evaluate_audio_file returns for a  *)
(* missing file has no "success" key.                                      *)
(***************************************************************************)
C5_FailureBodyShape ==
    \A w \in Workers :
        Done(w) /\ (Upload(w) \/ PathMode(w))
        => /\ req[w].resp.status # 200 => FailureShape(req[w].resp.body)
           /\ req[w].resp.status = 200 => get_success(req[w].resp.body)

(***************************************************************************)
(* C6.  GET /health answers 503 "unhealthy" exactly when the engine handle *)
(* is unset and 200 "healthy" exactly when it is set, and a health probe   *)
(* leaves the handle as it was.                                            *)
(***************************************************************************)
HealthAnswerMatchesHandle ==
    \A w \in Workers :
        Done(w) /\ req[w].endpoint = "health"
        => /\ (req[w].resp.status = 503) <=> (sigmos_estimator = "None")
           /\ (req[w].resp.status = 200) <=> (sigmos_estimator # "None")
           /\ (req[w].resp.body.cause = "unhealthy") <=> (sigmos_estimator = "None")
           /\ (req[w].resp.body.cause = "healthy") <=> (sigmos_estimator # "None")

C6_HealthReflectsHandle ==
    /\ []HealthAnswerMatchesHandle
    /\ [][ (\E w \in Workers : req'[w].endpoint = "health" /\ req'[w] # req[w])
           => sigmos_estimator' = sigmos_estimator ]_vars

\* a health probe was answered 503 while the handle was unset
C6_Witness ==
    \E w \in Workers :
        /\ Done(w) /\ req[w].endpoint = "health"
        /\ req[w].resp.status = 503 /\ sigmos_estimator = "None"

(***************************************************************************)
(* C7.  With the engine handle unset, a POST /evaluate or                  *)
(* POST /evaluate_path request that passed validation and decoded its      *)
(* audio is answered 500 with a success=false body built by                *)
(* evaluate_audio_file's except clause (not 503, not an unhandled          *)
(* exception), and for /evaluate the temporary file is gone.               *)
(***************************************************************************)
C7_NoEngineIsProcessingError ==
    \A w \in Workers :
        Done(w) /\ (Upload(w) \/ PathMode(w)) /\ Decoded(w) /\ sigmos_estimator = "None"
        => /\ req[w].resp.status = 500
           /\ FailureShape(req[w].resp.body)
           /\ req[w].resp.body.cause = "no_engine"
           /\ Upload(w) => req[w].file_path \notin DOMAIN fs

\* an upload was decoded and answered while the handle was unset
C7_Witness ==
    \E w \in Workers :
        /\ Done(w) /\ Upload(w) /\ Decoded(w) /\ sigmos_estimator = "None"
        /\ req[w].resp.status = 500

(***************************************************************************)
(* C8.  No step of a POST /evaluate_path request changes the filesystem:   *)
(* whatever its outcome, the path it names is neither deleted nor          *)
(* modified and nothing is created in the upload directory.                *)
(***************************************************************************)
C8_PathModeLeavesFilesystem ==
    [][ (\E w \in Workers : req'[w].endpoint = "evaluate_path" /\ req'[w] # req[w])
        => fs' = fs ]_vars

\* a path-mode request was answered 200 and the file it named is still there
C8_Witness ==
    \E w \in Workers :
        /\ Done(w) /\ PathMode(w) /\ req[w].resp.status = 200
        /\ req[w].file_path = GoodDataPath
        /\ GoodDataPath \in DOMAIN fs /\ fs[GoodDataPath] = "audioA"

C10_NeverServesWithoutEngine ==
    (\E w \in Workers : req[w].pc # "idle") => sigmos_estimator # "None"

(***************************************************************************)
(* C10 as amended.  When the service is started through its __main__       *)
(* block, it serves only with the handle set: if init_sigmos_model fails   *)
(* (model file missing or constructor raises) the process exits before the *)
(* HTTP server starts and no request handler ever runs.                    *)
(***************************************************************************)
C10_MainNeverServesWithoutEngine ==
    launch = "main" =>
        /\ (phase = "serving" \/ \E w \in Workers : req[w].pc # "idle")
              => sigmos_estimator # "None"
        /\ phase = "initialised" /\ ~modelFileExists => sigmos_estimator = "None"
        /\ phase = "exited" =>
              /\ sigmos_estimator = "None"
              /\ accepted = 0 /\ \A w \in Workers : req[w].pc = "idle"

\* initialization failed with the model file present (the constructor
\* raised) and the process has exited
C10_Witness ==
    /\ launch = "main" /\ phase = "exited" /\ modelFileExists
    /\ sigmos_estimator = "None"

(***************************************************************************)
(* C11.  For every decoded recording, once the engine has been called:     *)
(* file_size_samples is the recording's frame count; converted_to_mono is  *)
(* true exactly when the recording has more than one channel; the samples  *)
(* handed to the engine are a 1-D array holding the first channel's        *)
(* samples (for a one-channel recording, its samples unchanged); and the   *)
(* sample rate handed to the engine and reported is the recording's.       *)
(***************************************************************************)
C11_FirstChannelAndFrameCount ==
    calc.stage \in {"scored", "built"} =>
        LET f == calc.file
            n == Len(f.frames)
        IN  /\ calc.file_info.file_size_samples = n
            /\ calc.file_info.converted_to_mono <=> (f.channels > 1)
            /\ calc.engine_in.samples.shape = << n >>
            /\ \A i \in 1..n : calc.engine_in.samples.data[i] = f.frames[i][1]
            /\ Len(calc.engine_in.samples.data) = n
            /\ calc.engine_in.sr = f.samplerate
            /\ calc.file_info.sample_rate = f.samplerate

\* a two-channel recording whose channels differ has been scored
C11_Witness ==
    /\ calc.stage = "built"
    /\ calc.file.channels = 2 /\ Len(calc.file.frames) = 2
    /\ calc.file.frames[1][1] # calc.file.frames[1][2]
    /\ calc.file_info.converted_to_mono

\* the fixed order of the seven dimensions (written out, not taken from
\* mos_scores or raw_scores)
ExpectedOrder ==
    << "MOS_OVRL", "MOS_SIG", "MOS_NOISE", "MOS_LOUD", "MOS_COL", "MOS_DISC", "MOS_REVERB" >>

\* d is x rounded to 3 decimals: a whole number of thousandths at most half
\* a thousandth away from x
RoundedTo3(d, x) == d % 10 = 0 /\ d - x \in -5..5

(***************************************************************************)
(* C12.  In every result that was built, mos_scores and raw_scores each    *)
(* hold exactly seven entries in the order OVRL, SIG, NOISE, LOUD, COL,    *)
(* DISC, REVERB, whatever the engine returned; the i-th raw entry is the   *)
(* engine's value for the i-th name, and the i-th display entry is named   *)
(* after the same engine key and is that raw value rounded to 3 decimals.  *)
(***************************************************************************)
C12_ScoreOrderAndRounding ==
    calc.stage = "built" =>
        /\ Len(calc.mos_scores) = 7 /\ Len(calc.raw_scores) = 7
        /\ \A i \in 1..7 :
              /\ calc.raw_scores[i][1] = ExpectedOrder[i]
              /\ calc.raw_scores[i][2] = calc.engine_result[ExpectedOrder[i]]
              /\ calc.mos_scores[i][1][2] = ExpectedOrder[i]
              /\ RoundedTo3(calc.mos_scores[i][2], calc.raw_scores[i][2])

\* a result built from scores that differ between dimensions and round in
\* different directions
C12_Witness ==
    /\ calc.stage = "built"
    /\ calc.engine_result["MOS_OVRL"] = 31256
    /\ calc.engine_result["MOS_SIG"] = 31256
    /\ calc.engine_result["MOS_NOISE"] = 31244
    /\ calc.mos_scores[1][2] = 31260
    /\ calc.mos_scores[3][2] = 31240

(***************************************************************************)
(* C13.  Once start-up is over, no step changes the engine handle or the   *)
(* model directory: no request handler step (/, /health, /info,            *)
(* /evaluate, /evaluate_path), whatever the outcome of the evaluation.     *)
(***************************************************************************)
C13_GlobalsFrozenAfterInit ==
    [][ (phase # "boot" \/ \E w \in Workers : req'[w] # req[w])
        => /\ sigmos_estimator' = sigmos_estimator
           /\ model_dir' = model_dir ]_vars

\* after a scoring failure and a later successful evaluation the handle and
\* the model directory are those init_sigmos_model set
C13_Witness ==
    \E v, w \in Workers :
        /\ v # w /\ Done(v) /\ Done(w)
        /\ req[v].result.cause = "scoring_failed"
        /\ req[w].resp.status = 200
        /\ launch = "main" /\ sigmos_estimator = "SigMOS" /\ model_dir = "sigmos"

====
